---------------------------- MODULE Spec2Model ----------------------------
(***************************************************************************)
(* Model of stop_motion.py: the per-image session state (use_i, dur_i),    *)
(* the derived total_duration, the two callbacks update_total_duration and *)
(* rescale_individual_durations, and generate_video with the output file.  *)
(* Every user command (toggle, edit a duration, edit the total, press      *)
(* Generate) runs to completion before the next one.                       *)
(***************************************************************************)
EXTENDS Integers, Sequences, FiniteSets, TLC

\* ---- bounds of the model ------------------------------------------------
NumItems == 3          \* number of image files found in IMAGE_DIR
MaxSteps == 5          \* number of user commands in one session

\* ---- program constants --------------------------------------------------
FRAME_DURATION_MS == 40
DEFAULT_DURATION == 200
MIN_TOTAL == 100
MIN_DURATION == 1
MANTISSA_BITS == 52    \* fraction bits of a Python float (IEEE-754 binary64)

\* ---- inputs -------------------------------------------------------------
DurationInputs == {1, 7}            \* values typed in a "Duration (ms)" field
TotalInputs == {100, 101, 115}      \* values typed in the total field
AssembleDurations == {-50, 0, 10, 90}
PriorVideo == <<1>>                 \* an output.mp4 left by an earlier session

Items == 1..NumItems

VARIABLES use, dur, total_duration, output_exists, output_frames, last, steps

vars == <<use, dur, total_duration, output_exists, output_frames, last, steps>>

\* ---- arithmetic helpers -------------------------------------------------
Max(a, b) == IF a >= b THEN a ELSE b

Abs(x) == IF x >= 0 THEN x ELSE 0 - x

RECURSIVE SumSeq(_)
SumSeq(s) == IF s = <<>> THEN 0 ELSE Head(s) + SumSeq(Tail(s))

RECURSIVE Pow2(_)
Pow2(n) == IF n = 0 THEN 1 ELSE 2 * Pow2(n - 1)

\* 2^n mod m, without ever forming 2^n
RECURSIVE Pow2Mod(_, _)
Pow2Mod(n, m) == IF n = 0 THEN 1 % m ELSE (2 * Pow2Mod(n - 1, m)) % m

\* floor(log2 k) for k >= 1
RECURSIVE FloorLog2(_)
FloorLog2(k) == IF k < 2 THEN 0 ELSE 1 + FloorLog2(k \div 2)

\* floor(log2 (t / c)) for t, c >= 1: the binary exponent of the float t / c
RECURSIVE Exponent(_, _)
Exponent(t, c) ==
    IF t >= c
    THEN (IF 2 * c <= t THEN 1 + Exponent(t, 2 * c) ELSE 0)
    ELSE Exponent(2 * t, c) - 1

(***************************************************************************)
(* int(d * (t / c)) as Python computes it, with t / c and the product each *)
(* rounded to the nearest binary64 (ties to even).  With q = t / c in      *)
(* [2^E, 2^(E+1)), the 53-bit significand is floor(t * 2^(52-E) / c), the  *)
(* remainder r of that division decides the rounding of q, and the product *)
(* d * fl(q) = d*t/c + d * (fl(q) - q).  When d*t/c is not an integer the  *)
(* error is far smaller than the distance 1/c to the next integer, so the  *)
(* truncation is floor(d*t/c).  When d*t/c is an integer k and q was       *)
(* rounded down, the product lies below k and rounds back to k only if it  *)
(* is within half a unit in the last place of k.                           *)
(***************************************************************************)
ScaleRoundedDown(t, c) ==
    LET n == MANTISSA_BITS - Exponent(t, c)
        r == (t * Pow2Mod(n, c)) % c
        odd == ((t * Pow2Mod(n, 2 * c)) % (2 * c)) \div c
    IN  IF r = 0 THEN 0
        ELSE IF 2 * r < c \/ (2 * r = c /\ odd = 0) THEN r
        ELSE 0

IntScaleIntegerDivision(d, t, c) == d * (t \div c)

IntScale(d, t, c) ==
    LET k == (d * t) \div c
        r == ScaleRoundedDown(t, c)
        E == Exponent(t, c)
        L == FloorLog2(k)
        f == IF Pow2(L) = k THEN 4 ELSE 2
        lhs == f * d * r * (IF E >= 0 THEN Pow2(E) ELSE 1)
        rhs == c * Pow2(L) * (IF E >= 0 THEN 1 ELSE Pow2(0 - E))
    IN  IF d = 0 \/ (d * t) % c # 0 \/ r = 0 THEN k
        ELSE IF lhs > rhs THEN k - 1
        ELSE k

\* ---- session state and callbacks ----------------------------------------
AllIndices == [i \in 1..NumItems |-> i]

get_all_indices_and_durations(u, d) ==
    [indices |-> AllIndices, durations |-> [k \in 1..NumItems |-> d[k]]]

get_selected_indices_and_durations(u, d) ==
    LET indices == SelectSeq(AllIndices, LAMBDA i : u[i])
    IN  [indices |-> indices,
         durations |-> [k \in 1..Len(indices) |-> d[indices[k]]]]

update_total_duration_all_items(u, d) ==
    SumSeq([k \in 1..NumItems |-> d[k]])

update_total_duration(u, d) ==
    SumSeq(get_selected_indices_and_durations(u, d).durations)

EvenShareWhole(target, n) == target

EvenShare(target, n) == IF n # 0 THEN target \div n ELSE 0

rescale_individual_durations(u, d, target) ==
    LET sel == get_selected_indices_and_durations(u, d)
        selected == {sel.indices[k] : k \in 1..Len(sel.indices)}
        current_total == SumSeq(sel.durations)
    IN  IF sel.indices = <<>> THEN d
        ELSE IF current_total = 0
        THEN [i \in Items |->
                IF i \in selected THEN EvenShare(target, Len(sel.indices))
                ELSE d[i]]
        ELSE [i \in Items |->
                IF i \in selected THEN IntScale(d[i], target, current_total)
                ELSE d[i]]

\* ---- video assembly -----------------------------------------------------
RECURSIVE Repeat(_, _)
Repeat(img, n) == IF n <= 0 THEN <<>> ELSE <<img>> \o Repeat(img, n - 1)

NumFramesNoMinimum(duration) == duration \div FRAME_DURATION_MS

NumFrames(duration) == Max(1, duration \div FRAME_DURATION_MS)

\* the frames appended by the loop over zip(image_paths, durations)
RECURSIVE WriteFrames(_, _)
WriteFrames(paths, durations) ==
    IF paths = <<>> \/ durations = <<>> THEN <<>>
    ELSE Repeat(Head(paths), NumFrames(Head(durations)))
           \o WriteFrames(Tail(paths), Tail(durations))

HasValidDurationNonNegative(durations) ==
    \E k \in 1..Len(durations) : durations[k] >= 0

HasValidDuration(durations) ==
    \E k \in 1..Len(durations) : durations[k] > 0

generate_video(paths, durations, exists, frames) ==
    IF ~HasValidDuration(durations)
    THEN [exists |-> exists, frames |-> frames, error |-> TRUE]
    ELSE [exists |-> TRUE, frames |-> WriteFrames(paths, durations),
          error |-> FALSE]

\* the list built by the main loop of the script, one widget row per image
RECURSIVE SelectionsReversed(_, _, _)
SelectionsReversed(i, u, d) ==
    IF i > NumItems THEN <<>>
    ELSE SelectionsReversed(i + 1, u, d)
           \o (IF u[i] THEN << <<i, d[i]>> >> ELSE <<>>)

RECURSIVE Selections(_, _, _)
Selections(i, u, d) ==
    IF i > NumItems THEN <<>>
    ELSE (IF u[i] THEN << <<i, d[i]>> >> ELSE <<>>) \o Selections(i + 1, u, d)

\* ---- the state machine --------------------------------------------------
Snapshot(op, item, target, paths, durations, error) ==
    [op |-> op, item |-> item, target |-> target,
     use |-> use, dur |-> dur, total |-> total_duration,
     exists |-> output_exists, frames |-> output_frames,
     paths |-> paths, durations |-> durations, error |-> error]

Init ==
    /\ use = [i \in Items |-> TRUE]
    /\ dur = [i \in Items |-> DEFAULT_DURATION]
    /\ total_duration = update_total_duration(use, dur)
    /\ output_exists \in BOOLEAN
    /\ output_frames = IF output_exists THEN PriorVideo ELSE <<>>
    /\ last = [op |-> "Init", item |-> 0, target |-> 0,
               use |-> use, dur |-> dur, total |-> total_duration,
               exists |-> output_exists, frames |-> output_frames,
               paths |-> <<>>, durations |-> <<>>, error |-> FALSE]
    /\ steps = 0

ToggleInclude(i) ==
    /\ steps < MaxSteps
    /\ use' = [use EXCEPT ![i] = ~use[i]]
    /\ total_duration' = update_total_duration(use', dur)
    /\ last' = Snapshot("ToggleInclude", i, 0, <<>>, <<>>, FALSE)
    /\ steps' = steps + 1
    /\ UNCHANGED <<dur, output_exists, output_frames>>

SetDuration(i, ms) ==
    /\ steps < MaxSteps
    /\ ms >= MIN_DURATION
    /\ ms # dur[i]
    /\ dur' = [dur EXCEPT ![i] = ms]
    /\ total_duration' = update_total_duration(use, dur')
    /\ last' = Snapshot("SetDuration", i, ms, <<>>, <<>>, FALSE)
    /\ steps' = steps + 1
    /\ UNCHANGED <<use, output_exists, output_frames>>

SetTotal(ms) ==
    /\ steps < MaxSteps
    /\ ms >= MIN_TOTAL
    /\ ms # total_duration
    /\ total_duration' = ms
    /\ dur' = rescale_individual_durations(use, dur, ms)
    /\ last' = Snapshot("SetTotal", 0, ms, <<>>, <<>>, FALSE)
    /\ steps' = steps + 1
    /\ UNCHANGED <<use, output_exists, output_frames>>

Generate ==
    LET selections == Selections(1, use, dur)
        paths == [k \in 1..Len(selections) |-> selections[k][1]]
        durations == [k \in 1..Len(selections) |-> selections[k][2]]
        res == generate_video(paths, durations, output_exists, output_frames)
    IN  /\ steps < MaxSteps
        /\ selections # <<>>
        /\ output_exists' = res.exists
        /\ output_frames' = res.frames
        /\ last' = Snapshot("Generate", 0, 0, paths, durations, res.error)
        /\ steps' = steps + 1
        /\ UNCHANGED <<use, dur, total_duration>>

Next ==
    \/ \E i \in Items : ToggleInclude(i)
    \/ \E i \in Items : \E ms \in DurationInputs : SetDuration(i, ms)
    \/ \E ms \in TotalInputs : SetTotal(ms)
    \/ Generate

Spec == Init /\ [][Next]_vars

\* ---- generate_video applied once to an arbitrary input sequence ---------
AssembleCall(paths, durations) ==
    LET res == generate_video(paths, durations, output_exists, output_frames)
    IN  /\ steps = 0
        /\ output_exists' = res.exists
        /\ output_frames' = res.frames
        /\ last' = Snapshot("Assemble", 0, 0, paths, durations, res.error)
        /\ steps' = steps + 1
        /\ UNCHANGED <<use, dur, total_duration>>

AssembleNext ==
    /\ steps = 0
    /\ \E n \in 0..NumItems :
         \E paths \in [1..n -> Items] :
            \E durations \in [1..n -> AssembleDurations] :
                AssembleCall(paths, durations)

AssembleSpec == Init /\ [][AssembleNext]_vars

\* ---- vocabulary of the properties ---------------------------------------
Included(u) == {i \in Items : u[i]}

RECURSIVE SumOver(_, _)
SumOver(S, d) ==
    IF S = {} THEN 0
    ELSE LET i == CHOOSE x \in S : TRUE IN d[i] + SumOver(S \ {i}, d)

Drift == Abs(SumOver(Included(use), dur) - total_duration)

Recomputed == last.op \in {"ToggleInclude", "SetDuration"}

Rescaled == last.op = "SetTotal"

OldTotal == SumOver(Included(last.use), last.dur)

FrameCount(d) ==
    IF d \div FRAME_DURATION_MS >= 1 THEN d \div FRAME_DURATION_MS ELSE 1

\* number of frames contributed by the first k pairs
FramesUpTo(durations, k) ==
    SumOver(1..k, [j \in 1..Len(durations) |-> FrameCount(durations[j])])

\* f is the stream in which pair k occupies exactly the positions after the
\* frames of pairs 1..k-1, FrameCount of them, all showing image paths[k]
IsFrameStream(f, paths, durations) ==
    /\ Len(f) = FramesUpTo(durations, Len(durations))
    /\ \A k \in 1..Len(durations) :
         \A p \in (FramesUpTo(durations, k - 1) + 1)..FramesUpTo(durations, k) :
            f[p] = paths[k]

\* ---- properties ---------------------------------------------------------

\* C1: in every reachable state every item's duration_ms is strictly
\* greater than 0.
C1_DurationsPositive == \A i \in Items : dur[i] > 0

\* C2 (as stated): after any rescale_to_total or recompute_total, for any
\* number N of included items, N = 0 included, the stored total differs from
\* the sum of the included durations by at most N.
C2_DriftAtMostN_AnyN ==
    (Rescaled \/ Recomputed) => Drift <= Cardinality(Included(use))

\* C2 (amended): after any recompute_total (any N), and after any
\* rescale_to_total with N >= 1 included items, the stored total differs
\* from the sum of the included durations by at most N.
C2_DriftAtMostN ==
    (Recomputed \/ (Rescaled /\ Included(use) # {}))
        => Drift <= Cardinality(Included(use))

C2_Witness ==
    /\ Rescaled
    /\ Cardinality(Included(use)) >= 2
    /\ Drift > 0

\* C3: immediately after every ToggleInclude or SetDuration the stored
\* total equals the sum of duration_ms over exactly the included items, and
\* is 0 when no item is included.
C3_RecomputeExact ==
    Recomputed =>
        /\ total_duration = SumOver(Included(use), dur)
        /\ (Included(use) = {} => total_duration = 0)

C3_Witness ==
    /\ Recomputed
    /\ Included(use) # {}
    /\ Included(use) # Items
    /\ last.total # total_duration

\* C4: a rescale with nonzero current total C and target T sets every
\* included item's duration to floor(old_duration * T / C), with
\* old_duration and C the values held before the operation.
C4_ExactFloor ==
    (Rescaled /\ Included(use) # {} /\ OldTotal # 0) =>
        \A i \in Included(use) :
            dur[i] = (last.dur[i] * last.target) \div OldTotal

\* C5: a rescale when the current sum of the N >= 1 included durations is 0
\* gives every included item exactly T \div N, so the new sum is
\* N * (T \div N), the remainder being dropped.
C5_EvenShare ==
    (Rescaled /\ Included(use) # {} /\ OldTotal = 0) =>
        LET N == Cardinality(Included(use))
        IN  /\ \A i \in Included(use) : dur[i] = last.target \div N
            /\ SumOver(Included(use), dur) = N * (last.target \div N)

C5_Witness ==
    /\ Rescaled
    /\ Cardinality(Included(use)) >= 2
    /\ OldTotal = 0
    /\ last.target % Cardinality(Included(use)) # 0

\* C6: a rescale leaves the duration of every excluded item and the
\* included flag of every item unchanged.
C6_ExcludedUntouched ==
    Rescaled =>
        /\ use = last.use
        /\ \A i \in Items : ~last.use[i] => dur[i] = last.dur[i]

C6_Witness ==
    /\ Rescaled
    /\ \E i \in Items : ~use[i]
    /\ \E i \in Items : use[i] /\ dur[i] # last.dur[i]

\* C7: assemble called with an empty sequence, or one whose durations are
\* all <= 0, reports InvalidInput, writes no file and leaves a pre-existing
\* output file unchanged.
C7_InvalidInputRejected ==
    (/\ last.op = "Assemble"
     /\ \A k \in 1..Len(last.durations) : last.durations[k] <= 0)
        => /\ last.error
           /\ output_exists = last.exists
           /\ output_frames = last.frames

C7_Witness ==
    /\ last.op = "Assemble"
    /\ last.durations # <<>>
    /\ \A k \in 1..Len(last.durations) : last.durations[k] <= 0
    /\ last.exists
    /\ output_frames = PriorVideo

\* C8: assemble called with at least one duration > 0 writes exactly the
\* concatenation, in input order, of max(1, duration_ms \div 40) copies of
\* each image; durations below 40, and durations <= 0 in a mixed sequence,
\* contribute one frame.
C8_FrameStream ==
    (/\ last.op = "Assemble"
     /\ \E k \in 1..Len(last.durations) : last.durations[k] > 0)
        => /\ ~last.error
           /\ output_exists
           /\ IsFrameStream(output_frames, last.paths, last.durations)

C8_Witness ==
    /\ last.op = "Assemble"
    /\ Len(last.durations) >= 3
    /\ \E k \in 1..Len(last.durations) : last.durations[k] <= 0
    /\ \E k \in 1..Len(last.durations) : last.durations[k] = 10
    /\ \E k \in 1..Len(last.durations) : last.durations[k] = 90
    /\ last.paths[1] > last.paths[2]
    /\ output_exists

\* C9: in every reachable state the stored total_duration is at least the
\* field minimum of 100 ms.
C9_TotalAtLeastMinimum == total_duration >= MIN_TOTAL

\* C10: Generate calls assemble only with at least one item included, on
\* exactly the included items in ascending index order paired with their
\* current durations; a successful Generate replaces the video wholesale
\* with the frames of that sequence; no included flag, duration or the
\* stored total changes.
C10_GenerateSelection ==
    last.op = "Generate" =>
        /\ Included(use) # {}
        /\ Len(last.paths) = Cardinality(Included(use))
        /\ Len(last.durations) = Len(last.paths)
        /\ \A k \in 1..Len(last.paths) :
             /\ last.paths[k] \in Included(use)
             /\ last.durations[k] = dur[last.paths[k]]
             /\ \A j \in 1..(k - 1) : last.paths[j] < last.paths[k]
        /\ (~last.error =>
              /\ output_exists
              /\ IsFrameStream(output_frames, last.paths, last.durations))
        /\ use = last.use
        /\ dur = last.dur
        /\ total_duration = last.total

C10_Witness ==
    /\ last.op = "Generate"
    /\ ~last.error
    /\ Cardinality(Included(use)) >= 2
    /\ Included(use) # Items
    /\ last.exists
    /\ output_frames # last.frames

=============================================================================
